---- MODULE Spec2Model ----
(***************************************************************************)
(* State-machine model of backend/server.js: the Express handlers          *)
(* register, login, submit homework, list homework and bind child, the     *)
(* authenticateToken middleware in front of the protected ones, and the    *)
(* three tables they use (users, homeworks, parent_child).                 *)
(*                                                                         *)
(* Source vocabulary (spec vocabulary): student (submitter), teacher       *)
(* (reviewer), parent (guardian), homeworks (records), parent_child        *)
(* (relationships).                                                        *)
(*                                                                         *)
(* A handler that awaits the store more than once is one action per        *)
(* segment between awaits, because other requests run in between.  Every   *)
(* action takes the request (header, body fields) and the outcome err of   *)
(* the store call it makes as parameters; each specification below draws   *)
(* them from its own sets.                                                 *)
(***************************************************************************)
EXTENDS Integers, Sequences, FiniteSets, TLC

VARIABLES
    users,         \* table users: sequence of rows, id = position
    homeworks,     \* table homeworks: sequence of rows in insertion order
    parent_child,  \* table parent_child: sequence of rows in insertion order
    now,           \* the server's clock, in days
    issued,        \* the tokens register and login have sent to clients
    pc,            \* pc[c]: the request of client c that is waiting at an await
    resp           \* the response the last step sent, NoResponse if it sent none

vars == <<users, homeworks, parent_child, now, issued, pc, resp>>

stores == <<users, homeworks, parent_child>>

----------------------------------------------------------------------------
(* Bounds *)

NumClients == 2
MaxUsers == 3
MaxHomeworks == 2
MaxTokens == 2
MaxClock == 8

Clients == 1..NumClients

----------------------------------------------------------------------------
(* JavaScript values *)

Undefined == "undefined"
Null == [null |-> TRUE]

\* !v for the string-or-undefined values of a request body
Falsy(v) == v \in {Undefined, ""}

\* the elements of a sequence
Range(s) == {s[i] : i \in DOMAIN s}

----------------------------------------------------------------------------
(* Program constants and response texts *)

JWT_SECRET == "JWT_SECRET"
JWT_EXPIRES_IN == 7

MsgPleaseLogin == "auth: please log in first"
MsgTokenInvalid == "auth: token invalid or expired"
MsgIncomplete == "register: fill in all fields"
MsgAlreadyRegistered == "register: username or email already registered"
MsgRegistered == "register: success"
MsgServerError == "server error"
MsgDatabaseError == "login: database error"
MsgBadCredentials == "login: wrong username or password"
MsgLoggedIn == "login: success"
MsgOnlyStudent == "homework: only students can submit"
MsgEmptyHomework == "homework: title and content required"
MsgSubmitted == "homework: submitted"
MsgSubmitFailed == "homework: submit failed: "
MsgListFailed == "homework: cannot fetch data"
MsgOnlyParent == "bind: only parents can use this"
MsgNoChildName == "bind: enter the student username"
MsgChildNotFound == "bind: account not found"
MsgNotStudent == "bind: account is not a student"
MsgAlreadyBound == "bind: already bound"
MsgBound == "bind: bound student "
MsgBindFailed == "bind: failed, try again later"

----------------------------------------------------------------------------
(* The store (Supabase / PostgREST) *)

NoError == [code |-> "none", message |-> ""]

UNIQUE_VIOLATION == "23505"

\* A store call's outcome err is NoError, or a failure other than a constraint
\* violation: [code |-> ..., message |-> the adapter's detail].

\* .maybeSingle(): the row when exactly one matches, null when none, and an
\* error (data null) when more than one matches
MaybeSingle(rows) ==
    IF Cardinality(rows) > 1
    THEN [data |-> Null,
          error |-> [code |-> "PGRST116", message |-> "multiple rows returned"]]
    ELSE IF Cardinality(rows) = 1
    THEN [data |-> CHOOSE r \in rows : TRUE, error |-> NoError]
    ELSE [data |-> Null, error |-> NoError]

\* a select that the store fails returns no data
Failed(err) == [data |-> Null, error |-> err]

\* .or(`username.eq.${a},email.eq.${b}`) on users
UsersOrFilter(a, b) == {u \in Range(users) : u.username = a \/ u.email = b}

\* .eq('username', a) on users
UsersByUsername(a) == {u \in Range(users) : u.username = a}

\* the unique constraints of users: one row per username and per email
UsersUniqueViolation(row) ==
    \E u \in Range(users) : u.username = row.username \/ u.email = row.email

\* created_at of a new homeworks row is the store's clock (the column's default):
\* the time of the last insert, or later
StoreClock ==
    LET last == IF homeworks = <<>> THEN 0 ELSE homeworks[Len(homeworks)].created_at
    IN  {last, last + 1}

ParentChildUniqueViolation_None(row) == FALSE

\* the unique constraint of parent_child: one row per (parent_id, child_id)
ParentChildUniqueViolation(row) == row \in Range(parent_child)

----------------------------------------------------------------------------
(* bcrypt *)

BcryptHash(password) == "$2b$10$" \o password

\* bcrypt.compare rejects (throws) when data is not a string
BcryptCompareThrows(data) == data = Undefined

BcryptCompare(data, hash) == hash = BcryptHash(data)

----------------------------------------------------------------------------
(* jsonwebtoken *)

JwtSign_OtherUser(payload, key, t) ==
    [kind |-> "jwt", userId |-> payload.userId + 1, username |-> payload.username,
     role |-> payload.role, iat |-> t, exp |-> t + JWT_EXPIRES_IN, sig |-> key]

\* jwt.sign(payload, key, { expiresIn }) at time t
JwtSign(payload, key, t) ==
    [kind |-> "jwt", userId |-> payload.userId, username |-> payload.username,
     role |-> payload.role, iat |-> t, exp |-> t + JWT_EXPIRES_IN, sig |-> key]

JwtVerifyError_LateByOne(token, key, t) ==
    IF token.kind # "jwt" THEN [code |-> "JsonWebTokenError", message |-> "jwt malformed"]
    ELSE IF token.sig # key THEN [code |-> "JsonWebTokenError", message |-> "invalid signature"]
    ELSE IF t > token.exp THEN [code |-> "TokenExpiredError", message |-> "jwt expired"]
    ELSE NoError

\* jwt.verify(token, key) at time t: the error, or NoError
JwtVerifyError(token, key, t) ==
    IF token.kind # "jwt" THEN [code |-> "JsonWebTokenError", message |-> "jwt malformed"]
    ELSE IF token.sig # key THEN [code |-> "JsonWebTokenError", message |-> "invalid signature"]
    ELSE IF t >= token.exp THEN [code |-> "TokenExpiredError", message |-> "jwt expired"]
    ELSE NoError

\* the decoded payload
JwtPayload(token) ==
    [userId |-> token.userId, username |-> token.username, role |-> token.role,
     iat |-> token.iat, exp |-> token.exp]

----------------------------------------------------------------------------
(* Requests and responses *)

Idle == [op |-> "idle"]

NoUser == [userId |-> 0, username |-> Undefined, role |-> Undefined, iat |-> 0, exp |-> 0]

NoBody == [none |-> TRUE]

\* a response, with the request it answers: the operation, the Authorization
\* header and the body of the request; the HTTP status and the message of the
\* JSON body; req.user as the handler saw it (NoUser when no handler ran); the
\* token and rows of the JSON body; the store calls the request made
Response(op, header, body, status, message, user, token, data, calls) ==
    [op |-> op, header |-> header, body |-> body, status |-> status,
     message |-> message, user |-> user, token |-> token, data |-> data,
     calls |-> calls]

NoResponse == Response("none", <<>>, NoBody, 0, "", NoUser, Null, <<>>, <<>>)

----------------------------------------------------------------------------
(* Middleware: authenticateToken *)

\* a word of the Authorization header that is not a JWT
Word(s) == [kind |-> "text", text |-> s]

\* authHeader && authHeader.split(' ')[1]; the header is the sequence of its
\* space-separated words, <<>> when the request has no Authorization header
HeaderToken(header) == IF Len(header) >= 2 THEN header[2] ELSE Word(Undefined)

\* the outcome of the middleware at time t: rejected with a status and a
\* message, or next() with req.user set
AuthenticateToken(header, t) ==
    LET token == HeaderToken(header) IN
    IF token.kind = "text" /\ Falsy(token.text)
    THEN [next |-> FALSE, status |-> 401, message |-> MsgPleaseLogin, user |-> NoUser]
    ELSE IF JwtVerifyError(token, JWT_SECRET, t) # NoError
    THEN [next |-> FALSE, status |-> 403, message |-> MsgTokenInvalid, user |-> NoUser]
    ELSE [next |-> TRUE, status |-> 200, message |-> "", user |-> JwtPayload(token)]

\* the response of a protected route whose middleware rejected the request
Rejected(op, header, body, auth) ==
    Response(op, header, body, auth.status, auth.message, NoUser, Null, <<>>, <<>>)

\* a token signed with a key that is not the server's
Forge(token) == [token EXCEPT !.sig = "attacker key"]

----------------------------------------------------------------------------
(* 7.1 POST /api/register *)

\* the register requests in flight
Registering == {c \in Clients : pc[c].op = "register"}

RegisterBody(username, email, password, role) ==
    [username |-> username, email |-> email, password |-> password, role |-> role]

\* up to the first await: validation, then the duplicate lookup
RegisterLookup(c, username, email, password, role, err) ==
    LET body == RegisterBody(username, email, password, role)
        calls == <<"users.select">>
    IN
    /\ pc[c] = Idle
    /\ Len(users) + Cardinality(Registering) < MaxUsers
    /\ IF Falsy(username) \/ Falsy(email) \/ Falsy(password)
       THEN /\ resp' = Response("register", <<>>, body, 400, MsgIncomplete, NoUser,
                                Null, <<>>, <<>>)
            /\ UNCHANGED pc
       ELSE LET found == IF err = NoError
                         THEN MaybeSingle(UsersOrFilter(username, email))
                         ELSE Failed(err)
                existingUser == found.data
            IN  IF existingUser # Null
                THEN /\ resp' = Response("register", <<>>, body, 409, MsgAlreadyRegistered,
                                         NoUser, Null, <<>>, calls)
                     /\ UNCHANGED pc
                ELSE /\ pc' = [pc EXCEPT ![c] =
                                 [op |-> "register", body |-> body, calls |-> calls]]
                     /\ resp' = NoResponse
    /\ UNCHANGED <<users, homeworks, parent_child, now, issued>>

\* role: role || 'student'
RoleOrDefault(role) == IF Falsy(role) THEN "student" ELSE role

\* the rest: hash, insert, sign, respond
RegisterInsert(c, err) ==
    /\ pc[c].op = "register"
    /\ LET body == pc[c].body
           row == [id |-> Len(users) + 1, username |-> body.username,
                   email |-> body.email,
                   password_hash |-> BcryptHash(body.password),
                   role |-> RoleOrDefault(body.role), is_verified |-> TRUE]
           insertError ==
               IF err # NoError THEN err
               ELSE IF UsersUniqueViolation(row)
               THEN [code |-> UNIQUE_VIOLATION, message |-> "duplicate key value"]
               ELSE NoError
           calls == pc[c].calls \o <<"users.insert">>
           token == JwtSign([userId |-> row.id, username |-> row.username,
                             role |-> row.role], JWT_SECRET, now)
       IN  IF insertError # NoError
           THEN /\ resp' = Response("register", <<>>, body, 500, MsgServerError, NoUser,
                                    Null, <<>>, calls)
                /\ UNCHANGED <<users, issued>>
           ELSE /\ users' = Append(users, row)
                /\ issued' = issued \cup {token}
                /\ resp' = Response("register", <<>>, body, 201, MsgRegistered, NoUser,
                                    token,
                                    <<[id |-> row.id, username |-> row.username,
                                       role |-> row.role]>>, calls)
    /\ pc' = [pc EXCEPT ![c] = Idle]
    /\ UNCHANGED <<homeworks, parent_child, now>>

----------------------------------------------------------------------------
(* 7.2 POST /api/login *)

\* the response of login to (username, password) in the current state, the
\* users lookup having the outcome err
LoginResponse(username, password, err) ==
    LET body == [username |-> username, password |-> password]
        found == IF err = NoError
                 THEN MaybeSingle(UsersOrFilter(username, username))
                 ELSE Failed(err)
        user == found.data
        calls == <<"users.select">>
        token == JwtSign([userId |-> user.id, username |-> user.username,
                          role |-> user.role], JWT_SECRET, now)
    IN  IF found.error # NoError
        THEN Response("login", <<>>, body, 500, MsgDatabaseError, NoUser, Null, <<>>, calls)
        ELSE IF user = Null
        THEN Response("login", <<>>, body, 401, MsgBadCredentials, NoUser, Null, <<>>, calls)
        ELSE IF BcryptCompareThrows(password)
        THEN Response("login", <<>>, body, 500, MsgServerError, NoUser, Null, <<>>, calls)
        ELSE IF ~BcryptCompare(password, user.password_hash)
        THEN Response("login", <<>>, body, 401, MsgBadCredentials, NoUser, Null, <<>>, calls)
        ELSE Response("login", <<>>, body, 200, MsgLoggedIn, NoUser, token,
                      <<[id |-> user.id, username |-> user.username,
                         role |-> user.role]>>, calls)

Login(c, username, password, err) ==
    /\ pc[c] = Idle
    /\ LET r == LoginResponse(username, password, err) IN
       /\ resp' = r
       /\ IF r.token # Null
          THEN /\ r.token \in issued \/ Cardinality(issued) < MaxTokens
               /\ issued' = issued \cup {r.token}
          ELSE UNCHANGED issued
    /\ UNCHANGED <<users, homeworks, parent_child, now, pc>>

----------------------------------------------------------------------------
(* 8.1 POST /api/homework *)

CanSubmit_StaffToo(role) == role \in {"student", "teacher"}

\* req.user.role !== 'student' is refused
CanSubmit(role) == role = "student"

HomeworkRow_OwnerFromBody(user, body, created_at) ==
    [id |-> Len(homeworks) + 1,
     student_id |-> IF "student_id" \in DOMAIN body THEN body.student_id ELSE user.userId,
     student_name |-> IF "student_name" \in DOMAIN body THEN body.student_name
                      ELSE user.username,
     title |-> body.title, content |-> body.content, status |-> "pending",
     created_at |-> created_at]

\* the row the insert adds: the owner from req.user, title and content from the
\* body, and the columns the store fills in (id, created_at)
HomeworkRow(user, body, created_at) ==
    [id |-> Len(homeworks) + 1, student_id |-> user.userId,
     student_name |-> user.username, title |-> body.title,
     content |-> body.content, status |-> "pending",
     created_at |-> created_at]

\* body is req.body as the client sent it; the handler reads title and content
SubmitHomework(c, header, body, err) ==
    /\ pc[c] = Idle
    /\ LET auth == AuthenticateToken(header, now)
           user == auth.user
           title == body.title
           content == body.content
           calls == <<"homeworks.insert">>
       IN  IF ~auth.next
           THEN /\ resp' = Rejected("submit", header, body, auth)
                /\ UNCHANGED homeworks
           ELSE IF ~CanSubmit(user.role)
           THEN /\ resp' = Response("submit", header, body, 403, MsgOnlyStudent, user,
                                    Null, <<>>, <<>>)
                /\ UNCHANGED homeworks
           ELSE IF Falsy(title) \/ Falsy(content)
           THEN /\ resp' = Response("submit", header, body, 400, MsgEmptyHomework, user,
                                    Null, <<>>, <<>>)
                /\ UNCHANGED homeworks
           ELSE IF err # NoError
           THEN /\ resp' = Response("submit", header, body, 500,
                                    MsgSubmitFailed \o err.message, user, Null, <<>>, calls)
                /\ UNCHANGED homeworks
           ELSE /\ Len(homeworks) < MaxHomeworks
                /\ \E created_at \in StoreClock :
                      homeworks' = Append(homeworks, HomeworkRow(user, body, created_at))
                /\ resp' = Response("submit", header, body, 200, MsgSubmitted, user,
                                    Null, <<>>, calls)
    /\ UNCHANGED <<users, parent_child, now, issued, pc>>

----------------------------------------------------------------------------
(* 8.2 GET /api/homework *)

ScopeFilter_NoStudentScope(role, userId, childIds) ==
    IF role = "parent" THEN {h \in Range(homeworks) : h.student_id \in childIds}
    ELSE Range(homeworks)

\* the rows the query built for (role, userId, childIds) selects
ScopeFilter(role, userId, childIds) ==
    IF role = "student" THEN {h \in Range(homeworks) : h.student_id = userId}
    ELSE IF role = "teacher" THEN Range(homeworks)
    ELSE IF role = "parent" THEN {h \in Range(homeworks) : h.student_id \in childIds}
    ELSE Range(homeworks)

\* .order('created_at', { ascending: false }): the orders the store may return
\* the rows in (rows of equal created_at come in any order)
OrderByCreatedDesc(rows) ==
    {s \in [1..Cardinality(rows) -> rows] :
        \A i, j \in DOMAIN s : i < j => s[i] # s[j] /\ s[i].created_at >= s[j].created_at}

RelationsOf_WrongColumn(userId) == {r \in Range(parent_child) : r.child_id = userId}

\* .from('parent_child').select('child_id').eq('parent_id', userId)
RelationsOf(userId) == {r \in Range(parent_child) : r.parent_id = userId}

\* await query, then res.json(homeworks) or the catch
ListResponse(header, user, rows, err, calls) ==
    IF err # NoError
    THEN Response("list", header, NoBody, 500, MsgListFailed, user, Null, <<>>, calls)
    ELSE Response("list", header, NoBody, 200, "", user, Null, rows, calls)

\* up to the first await: the homeworks query, or for a parent the
\* parent_child query
ListHomework(c, header, err) ==
    /\ pc[c] = Idle
    /\ LET auth == AuthenticateToken(header, now)
           user == auth.user
       IN  IF ~auth.next
           THEN /\ resp' = Rejected("list", header, NoBody, auth)
                /\ UNCHANGED pc
           ELSE IF user.role = "parent"
           THEN LET relError == err
                    relations == RelationsOf(user.userId)
                    calls == <<"parent_child.select">>
                IN  IF relError # NoError
                    THEN /\ resp' = Response("list", header, NoBody, 500, MsgListFailed,
                                             user, Null, <<>>, calls)
                         /\ UNCHANGED pc
                    ELSE IF relations = {}
                    THEN /\ resp' = Response("list", header, NoBody, 200, "", user, Null,
                                             <<>>, calls)
                         /\ UNCHANGED pc
                    ELSE /\ pc' = [pc EXCEPT ![c] =
                                     [op |-> "list", header |-> header, user |-> user,
                                      childIds |-> {r.child_id : r \in relations},
                                      calls |-> calls]]
                         /\ resp' = NoResponse
           ELSE /\ \E rows \in OrderByCreatedDesc(ScopeFilter(user.role, user.userId, {})) :
                      resp' = ListResponse(header, user, rows, err, <<"homeworks.select">>)
                /\ UNCHANGED pc
    /\ UNCHANGED <<users, homeworks, parent_child, now, issued>>

\* a parent's homeworks query
ListChildren(c, err) ==
    /\ pc[c].op = "list"
    /\ LET r == pc[c] IN
       \E rows \in OrderByCreatedDesc(ScopeFilter(r.user.role, r.user.userId, r.childIds)) :
          resp' = ListResponse(r.header, r.user, rows, err, r.calls \o <<"homeworks.select">>)
    /\ pc' = [pc EXCEPT ![c] = Idle]
    /\ UNCHANGED <<users, homeworks, parent_child, now, issued>>

----------------------------------------------------------------------------
(* 8.3 POST /api/bind-child *)

CanBind_Anyone(role) == TRUE

\* req.user.role !== 'parent' is refused
CanBind(role) == role = "parent"

BindableTarget_AnyRole(role) == TRUE

\* child.role !== 'student' is refused
BindableTarget(role) == role = "student"

\* up to the first await: role check, validation, step A (find the student)
BindFind(c, header, childUsername, err) ==
    /\ pc[c] = Idle
    /\ LET auth == AuthenticateToken(header, now)
           user == auth.user
           body == [childUsername |-> childUsername]
           calls == <<"users.select">>
       IN  IF ~auth.next
           THEN /\ resp' = Rejected("bind", header, body, auth)
                /\ UNCHANGED pc
           ELSE IF ~CanBind(user.role)
           THEN /\ resp' = Response("bind", header, body, 403, MsgOnlyParent, user, Null,
                                    <<>>, <<>>)
                /\ UNCHANGED pc
           ELSE IF Falsy(childUsername)
           THEN /\ resp' = Response("bind", header, body, 400, MsgNoChildName, user, Null,
                                    <<>>, <<>>)
                /\ UNCHANGED pc
           ELSE LET found == IF err = NoError
                             THEN MaybeSingle(UsersByUsername(childUsername))
                             ELSE Failed(err)
                    child == found.data
                IN  IF found.error # NoError
                    THEN /\ resp' = Response("bind", header, body, 500, MsgBindFailed, user,
                                             Null, <<>>, calls)
                         /\ UNCHANGED pc
                    ELSE IF child = Null
                    THEN /\ resp' = Response("bind", header, body, 404, MsgChildNotFound,
                                             user, Null, <<>>, calls)
                         /\ UNCHANGED pc
                    ELSE IF ~BindableTarget(child.role)
                    THEN /\ resp' = Response("bind", header, body, 400, MsgNotStudent, user,
                                             Null, <<>>, calls)
                         /\ UNCHANGED pc
                    ELSE /\ pc' = [pc EXCEPT ![c] =
                                     [op |-> "bind", header |-> header, body |-> body,
                                      user |-> user, child_id |-> child.id,
                                      calls |-> calls]]
                         /\ resp' = NoResponse
    /\ UNCHANGED <<users, homeworks, parent_child, now, issued>>

BindInsert_WritesOnFailure(c, err) ==
    /\ pc[c].op = "bind"
    /\ LET r == pc[c]
           row == [parent_id |-> r.user.userId, child_id |-> r.child_id]
           calls == r.calls \o <<"parent_child.insert">>
       IN  /\ parent_child' = Append(parent_child, row)
           /\ resp' = IF err # NoError
                      THEN Response("bind", r.header, r.body, 500, MsgBindFailed,
                                    r.user, Null, <<>>, calls)
                      ELSE Response("bind", r.header, r.body, 200,
                                    MsgBound \o r.body.childUsername, r.user, Null, <<>>,
                                    calls)
    /\ pc' = [pc EXCEPT ![c] = Idle]
    /\ UNCHANGED <<users, homeworks, now, issued>>

\* step B: insert the relation
BindInsert(c, err) ==
    /\ pc[c].op = "bind"
    /\ LET r == pc[c]
           row == [parent_id |-> r.user.userId, child_id |-> r.child_id]
           bindError ==
               IF err # NoError THEN err
               ELSE IF ParentChildUniqueViolation(row)
               THEN [code |-> UNIQUE_VIOLATION, message |-> "duplicate key value"]
               ELSE NoError
           calls == r.calls \o <<"parent_child.insert">>
       IN  IF bindError # NoError
           THEN /\ resp' = IF bindError.code = UNIQUE_VIOLATION
                           THEN Response("bind", r.header, r.body, 409, MsgAlreadyBound,
                                         r.user, Null, <<>>, calls)
                           ELSE Response("bind", r.header, r.body, 500, MsgBindFailed,
                                         r.user, Null, <<>>, calls)
                /\ UNCHANGED parent_child
           ELSE /\ parent_child' = Append(parent_child, row)
                /\ resp' = Response("bind", r.header, r.body, 200,
                                    MsgBound \o r.body.childUsername, r.user, Null, <<>>,
                                    calls)
    /\ pc' = [pc EXCEPT ![c] = Idle]
    /\ UNCHANGED <<users, homeworks, now, issued>>

----------------------------------------------------------------------------
(* The server's clock *)

Tick ==
    /\ now < MaxClock
    /\ now' = now + 1
    /\ resp' = NoResponse
    /\ UNCHANGED <<users, homeworks, parent_child, issued, pc>>

----------------------------------------------------------------------------
(* The system after startup: empty tables, no request in flight *)

Init ==
    /\ users = <<>>
    /\ homeworks = <<>>
    /\ parent_child = <<>>
    /\ now = 0
    /\ issued = {}
    /\ pc = [c \in Clients |-> Idle]
    /\ resp = NoResponse

----------------------------------------------------------------------------
(* Spec: all five operations by concurrent clients on a store that does not  *)
(* fail, with users of every role.  The clock stands still (no token         *)
(* expires).                                                                 *)

RegisterBodies ==
    {RegisterBody("amy", "amy@x", "pw1", Undefined),
     RegisterBody("bob", "bob@x", "pw1", "student"),
     RegisterBody("pat", "pat@x", "pw1", "parent"),
     RegisterBody("tom", "tom@x", "pw1", "teacher"),
     RegisterBody("eve", "eve@x", "pw1", "admin")}

HomeworkBodies ==
    {[title |-> "essay", content |-> "text"], [title |-> "", content |-> "text"]}

BindBodies == {[childUsername |-> u] : u \in {"amy", "bob", Undefined}}

\* the Authorization headers: none, or a token the server issued
BearerHeaders == {<<>>} \cup {<<Word("Bearer"), t>> : t \in issued}

Next ==
    \/ \E c \in Clients, body \in RegisterBodies :
          RegisterLookup(c, body.username, body.email, body.password, body.role, NoError)
    \/ \E c \in Clients : RegisterInsert(c, NoError)
    \/ \E c \in Clients : \E header \in BearerHeaders : \E body \in HomeworkBodies :
          SubmitHomework(c, header, body, NoError)
    \/ \E c \in Clients : \E header \in BearerHeaders : ListHomework(c, header, NoError)
    \/ \E c \in Clients : ListChildren(c, NoError)
    \/ \E c \in Clients : \E header \in BearerHeaders : \E body \in BindBodies :
          BindFind(c, header, body.childUsername, NoError)
    \/ \E c \in Clients : BindInsert(c, NoError)

Spec == Init /\ [][Next]_vars

----------------------------------------------------------------------------
(* SpecAccounts: register and login by concurrent clients on a store that    *)
(* does not fail, with requests whose usernames and emails collide.          *)

AccountBodies ==
    {RegisterBody("amy", "amy@x", "pw1", Undefined),
     RegisterBody("bob", "bob@x", "pw2", "teacher"),
     RegisterBody("amy", "bob@x", "pw1", "parent"),
     RegisterBody("cat", "amy", "pw1", "admin"),
     RegisterBody("dan", Undefined, "pw1", "student")}

AccountLogins ==
    [username : {"amy", "bob", "amy@x", "zoe"}, password : {"pw1", "pw2", Undefined}]

NextAccounts ==
    \/ \E c \in Clients, body \in AccountBodies :
          RegisterLookup(c, body.username, body.email, body.password, body.role, NoError)
    \/ \E c \in Clients : RegisterInsert(c, NoError)
    \/ \E c \in Clients, body \in AccountLogins :
          Login(c, body.username, body.password, NoError)

SpecAccounts == Init /\ [][NextAccounts]_vars

----------------------------------------------------------------------------
(* SpecExpiry: the protected operations with every shape of Authorization    *)
(* header, while the clock runs past the expiry of the tokens.  One client   *)
(* registers a student and logs in again later; as no parent exists, the     *)
(* second steps of listing and binding are never enabled and are left out.   *)

ExpiryBodies == {RegisterBody("amy", "amy@x", "pw1", Undefined)}

ExpiryLogins == {[username |-> "amy", password |-> "pw1"]}

\* no header; one word; a token without a scheme word; a token after Bearer or
\* after another scheme word; a token signed with another key; an empty token
AllHeaders ==
    {<<>>, <<Word("Bearer")>>, <<Word("Bearer"), Word("")>>}
    \cup UNION {{<<t>>, <<Word("Bearer"), t>>, <<Word("Basic"), t>>,
                 <<Word("Bearer"), Forge(t)>>} : t \in issued}

NextExpiry ==
    \/ \E body \in ExpiryBodies :
          RegisterLookup(1, body.username, body.email, body.password, body.role, NoError)
    \/ RegisterInsert(1, NoError)
    \/ \E body \in ExpiryLogins : Login(1, body.username, body.password, NoError)
    \/ \E header \in AllHeaders :
          SubmitHomework(1, header, [title |-> "essay", content |-> "text"], NoError)
    \/ \E header \in AllHeaders : ListHomework(1, header, NoError)
    \/ \E header \in AllHeaders : BindFind(1, header, "amy", NoError)
    \/ Tick

SpecExpiry == Init /\ [][NextExpiry]_vars

----------------------------------------------------------------------------
(* SpecFaults: all five operations on a store that may fail any call, with   *)
(* two different error details of the adapter.  The requests include bodies  *)
(* with missing fields, homework bodies that name another owner, and bind    *)
(* targets that are a student, not a student, or not stored.                 *)

\* the error details the adapter may report
AdapterMessages == {"connection refused", "permission denied for table"}

\* a failure of the store that is not a constraint violation
Fault(m) == [code |-> "08006", message |-> m]

StoreOutcomes == {NoError} \cup {Fault(m) : m \in AdapterMessages}

FaultRegisterBodies ==
    {RegisterBody("amy", "amy@x", "pw1", Undefined),
     RegisterBody("pat", "pat@x", "pw1", "parent"),
     RegisterBody("tom", "tom@x", "pw1", "teacher"),
     RegisterBody("dan", Undefined, "pw1", "student")}

FaultLogins ==
    {[username |-> "amy", password |-> "pw1"], [username |-> "amy", password |-> "pw2"],
     [username |-> "zoe", password |-> "pw1"]}

FaultHomeworkBodies ==
    {[title |-> "essay", content |-> "text"],
     [title |-> "essay", content |-> "text", student_id |-> 9, student_name |-> "tom",
      status |-> "graded"],
     [title |-> "", content |-> "text"]}

FaultBindBodies == {[childUsername |-> u] : u \in {"amy", "pat", "zoe", Undefined}}

NextFaults ==
    \/ \E body \in FaultRegisterBodies, err \in StoreOutcomes :
          RegisterLookup(1, body.username, body.email, body.password, body.role, err)
    \/ \E err \in StoreOutcomes : RegisterInsert(1, err)
    \/ \E body \in FaultLogins, err \in StoreOutcomes :
          Login(1, body.username, body.password, err)
    \/ \E header \in BearerHeaders, body \in FaultHomeworkBodies, err \in StoreOutcomes :
          SubmitHomework(1, header, body, err)
    \/ \E header \in BearerHeaders, err \in StoreOutcomes : ListHomework(1, header, err)
    \/ \E err \in StoreOutcomes : ListChildren(1, err)
    \/ \E header \in BearerHeaders, body \in FaultBindBodies, err \in StoreOutcomes :
          BindFind(1, header, body.childUsername, err)
    \/ \E err \in StoreOutcomes : BindInsert(1, err)

SpecFaults == Init /\ [][NextFaults]_vars

----------------------------------------------------------------------------
(* Vocabulary of the claims *)

KnownRoles == {"student", "teacher", "parent"}

\* the handler ran: the middleware let the request through
Authenticated(r) == r.user # NoUser

owners(rows) == {h.student_id : h \in rows}

\* the submitter ids bound to guardian g
BoundTo(g) == {r.child_id : r \in {x \in Range(parent_child) : x.parent_id = g}}

NewestFirst(rows) ==
    \A i, j \in DOMAIN rows : i < j => rows[i].created_at >= rows[j].created_at

NoRepeats(rows) == \A i, j \in DOMAIN rows : i # j => rows[i] # rows[j]

----------------------------------------------------------------------------
(* Claims about listing (8.2) *)

\* C1: a listing for a session whose role is none of student, teacher, parent
\* fails closed: status 403, no rows.
C1_UnknownRoleFailsClosed ==
    (resp.op = "list" /\ Authenticated(resp) /\ resp.user.role \notin KnownRoles)
        => (resp.status = 403 /\ resp.data = <<>>)

\* C2: a student's listing holds exactly the rows whose student_id is the
\* session's userId.
C2_StudentSeesOwnOnly ==
    (resp.op = "list" /\ resp.status = 200 /\ resp.user.role = "student")
        => /\ Range(resp.data) = {h \in Range(homeworks) : h.student_id = resp.user.userId}
           /\ \A i \in DOMAIN resp.data : resp.data[i].student_id = resp.user.userId

\* a student was served a non-empty listing while another student's homework
\* is stored
C2_Witness ==
    /\ resp.op = "list" /\ resp.status = 200 /\ resp.user.role = "student"
    /\ resp.data # <<>>
    /\ \E h \in Range(homeworks) : h.student_id # resp.user.userId

\* C3: a parent's listing. The parent_child query resolves exactly the children
\* bound to the parent; with none bound the response is the empty list and no
\* homeworks query is made; otherwise the homeworks query returns exactly the
\* rows of the resolved children, newest first.
C3_ParentSeesBoundChildren ==
    [][/\ \A c \in Clients :
            (pc[c] = Idle /\ pc'[c].op = "list")
               => /\ pc'[c].childIds = BoundTo(pc'[c].user.userId)
                  /\ pc'[c].childIds # {}
       /\ (pc' = pc /\ resp'.op = "list" /\ resp'.status = 200
              /\ resp'.user.role = "parent")
               => /\ BoundTo(resp'.user.userId) = {}
                  /\ resp'.data = <<>>
                  /\ resp'.calls = <<"parent_child.select">>
       /\ \A c \in Clients :
            (pc[c].op = "list" /\ pc'[c] = Idle)
               => /\ resp'.op = "list" /\ resp'.status = 200
                  /\ Range(resp'.data) =
                        {h \in Range(homeworks) : h.student_id \in pc[c].childIds}
                  /\ NewestFirst(resp'.data) /\ NoRepeats(resp'.data)
      ]_vars

\* a parent bound to two students was served both students' homework, the
\* newer first
C3_Witness ==
    /\ resp.op = "list" /\ resp.status = 200 /\ resp.user.role = "parent"
    /\ Cardinality(BoundTo(resp.user.userId)) = 2
    /\ owners(Range(resp.data)) = BoundTo(resp.user.userId)
    /\ Len(resp.data) = 2 /\ resp.data[1].created_at > resp.data[2].created_at

\* a parent bound to nobody was served the empty list while homework is stored
C3_WitnessUnbound ==
    /\ resp.op = "list" /\ resp.status = 200 /\ resp.user.role = "parent"
    /\ BoundTo(resp.user.userId) = {} /\ homeworks # <<>>

----------------------------------------------------------------------------
(* Claims about submission (8.1) and binding (8.3) *)

\* C4: a submission for a session whose role is not student is answered 403
\* "only students" before any store call, whatever the title and content, and
\* leaves the tables as they were.
C4_NonStudentCannotSubmit ==
    [][(resp'.op = "submit" /\ Authenticated(resp') /\ resp'.user.role # "student")
          => /\ resp'.status = 403 /\ resp'.message = MsgOnlyStudent
             /\ resp'.calls = <<>>
             /\ stores' = stores
      ]_vars

\* a teacher's submission with a title and a content was refused
C4_Witness ==
    /\ resp.op = "submit" /\ resp.status = 403 /\ resp.message = MsgOnlyStudent
    /\ resp.user.role = "teacher"
    /\ ~Falsy(resp.body.title) /\ ~Falsy(resp.body.content)

\* C7: parent_child never holds a (parent, child) pair twice; the insert of a
\* bind request is answered 409 "already bound" and adds nothing when the pair
\* is stored, and is answered 200 and adds the pair when it is not.
C7_BindOncePerPair ==
    [][/\ NoRepeats(parent_child')
       /\ \A c \in Clients :
            (pc[c].op = "bind" /\ pc'[c] = Idle)
               => LET row == [parent_id |-> pc[c].user.userId, child_id |-> pc[c].child_id]
                  IN  IF row \in Range(parent_child)
                      THEN /\ resp'.status = 409 /\ resp'.message = MsgAlreadyBound
                           /\ parent_child' = parent_child
                      ELSE /\ resp'.status = 200
                           /\ parent_child' = Append(parent_child, row)
      ]_vars

\* a bind request was refused as a duplicate while another request for the
\* same pair, which also passed step A, waits at its insert
C7_Witness ==
    /\ resp.op = "bind" /\ resp.status = 409 /\ resp.message = MsgAlreadyBound
    /\ \E c \in Clients :
          /\ pc[c].op = "bind"
          /\ pc[c].user.userId = resp.user.userId
          /\ pc[c].body = resp.body
    /\ Len(parent_child) = 1

----------------------------------------------------------------------------
(* Claims about register (7.1) and login (7.2) *)

\* a stored identity has the username or the email of the register body
Collides(body) ==
    \E u \in Range(users) : u.username = body.username \/ u.email = body.email

\* C5: a register request whose username or email is that of a stored identity
\* is answered 409 by the duplicate lookup and creates no identity: the lookup
\* never lets it through to the insert.
C5_DuplicateAlwaysConflict ==
    [][/\ \A c \in Clients :
            (pc[c] = Idle /\ pc'[c].op = "register") => ~Collides(pc'[c].body)
       /\ (pc' = pc /\ resp'.op = "register" /\ resp'.status # 400 /\ Collides(resp'.body))
            => (resp'.status = 409 /\ users' = users)
      ]_vars

\* C6: a register request whose insert the unique constraints of users refuse
\* is answered 409 "already registered", not 500, and creates no identity.
C6_RefusedInsertIsConflict ==
    [][\A c \in Clients :
         (pc[c].op = "register" /\ pc'[c] = Idle /\ Collides(pc[c].body))
            => /\ resp'.status = 409 /\ resp'.message = MsgAlreadyRegistered
               /\ users' = users
      ]_vars

\* C8: a login with the username and the password of a stored identity is
\* answered 200 with a token whose role is the stored role.
C8_LoginAfterRegister ==
    resp.op = "login"
        => \A u \in Range(users) :
              (u.username = resp.body.username
                  /\ u.password_hash = BcryptHash(resp.body.password))
                 => (resp.status = 200 /\ resp.token.role = u.role)

\* the answers of login that the caller sees
Visible(r) == [status |-> r.status, message |-> r.message, token |-> r.token, data |-> r.data]

\* the login names a stored identity (by username or email) and the password
\* does not verify against it
WrongPassword(b) ==
    /\ UsersOrFilter(b.username, b.username) # {}
    /\ \A u \in UsersOrFilter(b.username, b.username) :
          u.password_hash # BcryptHash(b.password)

UnknownUsername(b) == UsersOrFilter(b.username, b.username) = {}

\* C9: in every state, a login with a password that does not verify for a
\* stored identity and a login with a username that is not stored get the same
\* answer.
C9_LoginFailuresIndistinguishable ==
    \A b1, b2 \in AccountLogins :
        (WrongPassword(b1) /\ UnknownUsername(b2))
            => Visible(LoginResponse(b1.username, b1.password, NoError))
                  = Visible(LoginResponse(b2.username, b2.password, NoError))

----------------------------------------------------------------------------
(* Claims about the middleware *)

Protected == {"submit", "list", "bind"}

\* the header carries, as its second word, a token signed with the server's key
CorrectlySigned(header) ==
    /\ Len(header) >= 2
    /\ header[2].kind = "jwt"
    /\ header[2].sig = JWT_SECRET

TokenRejected(r) == r.status = 403 /\ r.message = MsgTokenInvalid

\* C10: the middleware accepts a correctly signed token at every time before
\* iat + 7 days (the handler runs with the token's payload as req.user) and
\* rejects it with 403 "token invalid or expired" from then on; a rejected
\* request runs no handler, makes no store call and changes no table; a token
\* the middleware rejects now is rejected at every later time.
C10_TokenValidUntilExpiry ==
    [][/\ (pc' = pc /\ resp'.op \in Protected /\ CorrectlySigned(resp'.header))
             => LET token == resp'.header[2] IN
                IF now < token.iat + JWT_EXPIRES_IN
                THEN resp'.user = JwtPayload(token)
                ELSE TokenRejected(resp')
       /\ (resp'.op \in Protected /\ TokenRejected(resp'))
             => /\ resp'.user = NoUser /\ resp'.calls = <<>>
                /\ stores' = stores /\ pc' = pc
       /\ \A t \in issued :
             ~AuthenticateToken(<<Word("Bearer"), t>>, now).next
                => ~AuthenticateToken(<<Word("Bearer"), t>>, now').next
      ]_vars

\* a request with a correctly signed token was rejected after the token's
\* expiry, while a token issued later is still accepted
C10_Witness ==
    /\ resp.op \in Protected /\ TokenRejected(resp)
    /\ CorrectlySigned(resp.header)
    /\ now >= resp.header[2].exp
    /\ \E t \in issued : AuthenticateToken(<<Word("Bearer"), t>>, now).next

\* the request of the last day before expiry was accepted: the student's
\* submission was stored
C10_WitnessAccepted ==
    /\ resp.op = "submit" /\ resp.status = 200
    /\ now = resp.header[2].exp - 1

\* the header is not of the form "Bearer <token>": it is absent, has one word,
\* or its first word is not Bearer
NoBearerToken(header) == Len(header) < 2 \/ header[1] # Word("Bearer")

\* C11: a request to a protected route whose Authorization header is absent,
\* has a single word, or has a scheme word other than Bearer is answered 401
\* "please log in" and the handler is not run.
C11_NoBearerIsMissingCredential ==
    (resp.op \in Protected /\ NoBearerToken(resp.header))
        => /\ resp.status = 401 /\ resp.message = MsgPleaseLogin
           /\ ~Authenticated(resp) /\ resp.calls = <<>>

----------------------------------------------------------------------------
(* Claims about the stored data *)

\* C12: in every state, every row of users has a role that is one of student,
\* teacher, parent.
C12_StoredRolesKnown == \A u \in Range(users) : u.role \in KnownRoles

\* the stored identity with this id is a student
StoredStudent(id) == \E u \in Range(users) : u.id = id /\ u.role = "student"

\* C13: the child_id of every row of parent_child is the id of a stored
\* identity whose role is student; a bind request of a parent whose target
\* username is not stored is answered 404 "not found", one whose target has
\* another role is answered 400 "not a student", and neither gets to the
\* insert nor changes a table.
C13_BindTargetIsStudent ==
    [][/\ \A r \in Range(parent_child') :
             \E u \in Range(users') : u.id = r.child_id /\ u.role = "student"
       /\ \A c \in Clients : pc'[c].op = "bind" => StoredStudent(pc'[c].child_id)
       /\ \A c \in Clients :
            LET header == resp'.header
                childUsername == resp'.body.childUsername
                auth == AuthenticateToken(header, now)
                target == UsersByUsername(childUsername)
            IN  (/\ resp'.op = "bind" /\ pc' = pc
                 /\ auth.next /\ auth.user.role = "parent" /\ ~Falsy(childUsername)
                 /\ BindFind(c, header, childUsername, NoError))
                   => /\ target = {}
                         => /\ resp'.status = 404 /\ resp'.message = MsgChildNotFound
                            /\ stores' = stores
                      /\ (\E u \in target : u.role # "student")
                         => /\ resp'.status = 400 /\ resp'.message = MsgNotStudent
                            /\ stores' = stores
      ]_vars

\* a parent who is bound to a student asked to bind an identity that is not a
\* student and was refused
C13_Witness ==
    /\ resp.op = "bind" /\ resp.status = 400 /\ resp.message = MsgNotStudent
    /\ \E u \in UsersByUsername(resp.body.childUsername) : u.role = "parent"
    /\ parent_child # <<>>

\* a parent asked to bind a username that is not stored and was refused
C13_WitnessNotFound ==
    /\ resp.op = "bind" /\ resp.status = 404 /\ resp.message = MsgChildNotFound
    /\ UsersByUsername(resp.body.childUsername) = {}

----------------------------------------------------------------------------
(* Claims about store failures and the order of checks *)

\* C14: a register request with all three fields whose duplicate lookup the
\* store fails is answered 500 and does not go on to the insert.
C14_FailedLookupIsStoreError ==
    [][\A c \in Clients, body \in FaultRegisterBodies, m \in AdapterMessages :
         (/\ ~(Falsy(body.username) \/ Falsy(body.email) \/ Falsy(body.password))
          /\ RegisterLookup(c, body.username, body.email, body.password, body.role,
                            Fault(m)))
            => /\ resp'.op = "register" /\ resp'.status = 500
               /\ pc' = pc /\ users' = users
      ]_vars

\* C15: homeworks changes only by a submit request answered 200, which adds
\* one row whose student_id and student_name are the userId and username of
\* the token the request presented, whose title and content are the body's and
\* whose status is pending, whatever else the body holds.
C15_OwnerFromSession ==
    [][homeworks' # homeworks
          => /\ resp'.op = "submit" /\ resp'.status = 200
             /\ CorrectlySigned(resp'.header)
             /\ Len(homeworks') = Len(homeworks) + 1
             /\ SubSeq(homeworks', 1, Len(homeworks)) = homeworks
             /\ LET row == homeworks'[Len(homeworks')]
                    session == JwtPayload(resp'.header[2])
                IN  /\ row.student_id = session.userId
                    /\ row.student_name = session.username
                    /\ row.status = "pending"
                    /\ row.title = resp'.body.title
                    /\ row.content = resp'.body.content
      ]_vars

\* a submission whose body named another owner and another status was stored
\* under the session's identity
C15_Witness ==
    /\ resp.op = "submit" /\ resp.status = 200
    /\ "student_id" \in DOMAIN resp.body
    /\ resp.body.student_id # resp.user.userId
    /\ resp.body.student_name # resp.user.username
    /\ resp.body.status # "pending"
    /\ homeworks # <<>>
    /\ homeworks[Len(homeworks)].student_id = resp.user.userId

\* C16: the answer to a request whose store call fails does not depend on the
\* error detail of the adapter: a step of an operation whose store call fails
\* with one detail is also a step of the same request whose store call fails
\* with the other detail (same response, same next state).
C16_StoreErrorIsGeneric ==
    [][\A c \in Clients, m1, m2 \in AdapterMessages :
         /\ \A body \in FaultRegisterBodies :
               RegisterLookup(c, body.username, body.email, body.password, body.role,
                              Fault(m1))
                  => RegisterLookup(c, body.username, body.email, body.password,
                                    body.role, Fault(m2))
         /\ RegisterInsert(c, Fault(m1)) => RegisterInsert(c, Fault(m2))
         /\ \A body \in FaultLogins :
               Login(c, body.username, body.password, Fault(m1))
                  => Login(c, body.username, body.password, Fault(m2))
         /\ \A header \in BearerHeaders, body \in FaultHomeworkBodies :
               SubmitHomework(c, header, body, Fault(m1))
                  => SubmitHomework(c, header, body, Fault(m2))
         /\ \A header \in BearerHeaders :
               ListHomework(c, header, Fault(m1)) => ListHomework(c, header, Fault(m2))
         /\ ListChildren(c, Fault(m1)) => ListChildren(c, Fault(m2))
         /\ \A header \in BearerHeaders, body \in FaultBindBodies :
               BindFind(c, header, body.childUsername, Fault(m1))
                  => BindFind(c, header, body.childUsername, Fault(m2))
         /\ BindInsert(c, Fault(m1)) => BindInsert(c, Fault(m2))
      ]_vars

\* the request was answered without a store call: the response lists no call,
\* no request is left waiting at an await and the tables are as they were
NoStoreAccess(r, next_pc, next_stores) ==
    r.calls = <<>> /\ next_pc = pc /\ next_stores = stores

\* C17: validation and role checks come before the first store call.  A
\* register request with a field missing is answered 400; a submit request of
\* a session that is not a student is answered 403, and one of a student with
\* an empty title or content 400; a bind request of a session that is not a
\* parent is answered 403, also when the target username is missing, and one
\* of a parent with the target missing 400; none of them makes a store call,
\* and the step is the same whatever the store would have answered.
\* A request that waits at a store call passed these checks.
C17_ChecksBeforeStore ==
    [][LET r == resp' IN
       /\ (r.op = "register"
              /\ (Falsy(r.body.username) \/ Falsy(r.body.email) \/ Falsy(r.body.password)))
            => /\ r.status = 400 /\ r.message = MsgIncomplete
               /\ NoStoreAccess(r, pc', stores')
               /\ \A err \in StoreOutcomes : \E c \in Clients :
                     RegisterLookup(c, r.body.username, r.body.email, r.body.password,
                                    r.body.role, err)
       /\ (r.op = "submit" /\ Authenticated(r)
              /\ (r.user.role # "student" \/ Falsy(r.body.title) \/ Falsy(r.body.content)))
            => /\ IF r.user.role # "student"
                  THEN r.status = 403 /\ r.message = MsgOnlyStudent
                  ELSE r.status = 400 /\ r.message = MsgEmptyHomework
               /\ NoStoreAccess(r, pc', stores')
               /\ \A err \in StoreOutcomes : \E c \in Clients :
                     SubmitHomework(c, r.header, r.body, err)
       /\ (r.op = "bind" /\ Authenticated(r)
              /\ (r.user.role # "parent" \/ Falsy(r.body.childUsername)))
            => /\ IF r.user.role # "parent"
                  THEN r.status = 403 /\ r.message = MsgOnlyParent
                  ELSE r.status = 400 /\ r.message = MsgNoChildName
               /\ NoStoreAccess(r, pc', stores')
               /\ \A err \in StoreOutcomes : \E c \in Clients :
                     BindFind(c, r.header, r.body.childUsername, err)
       /\ \A c \in Clients :
            /\ pc'[c].op = "register"
                 => ~(Falsy(pc'[c].body.username) \/ Falsy(pc'[c].body.email)
                        \/ Falsy(pc'[c].body.password))
            /\ pc'[c].op = "bind"
                 => pc'[c].user.role = "parent" /\ ~Falsy(pc'[c].body.childUsername)
      ]_vars

\* a bind request of a student without a target username was answered 403
\* "only parents", not 400
C17_Witness ==
    /\ resp.op = "bind" /\ Authenticated(resp) /\ resp.user.role = "student"
    /\ Falsy(resp.body.childUsername)
    /\ resp.status = 403 /\ resp.message = MsgOnlyParent /\ resp.calls = <<>>

\* a register request without an email was answered 400 while identities are
\* stored
C17_WitnessRegister ==
    /\ resp.op = "register" /\ Falsy(resp.body.email)
    /\ resp.status = 400 /\ resp.calls = <<>> /\ users # <<>>

\* a student's submission with an empty title was answered 400
C17_WitnessSubmit ==
    /\ resp.op = "submit" /\ resp.user.role = "student" /\ Falsy(resp.body.title)
    /\ resp.status = 400 /\ resp.calls = <<>>

\* C18: a step that answers with an error (status 400 or above) changes no
\* table; neither do the steps of login and of listing, whatever they answer,
\* nor the steps of a request that end at an await without a response.
C18_ErrorsChangeNothing ==
    [][/\ resp'.status >= 400 => stores' = stores
       /\ resp'.op \in {"login", "list"} => stores' = stores
       /\ resp' = NoResponse => stores' = stores
      ]_vars

\* the insert of a bind request failed in the store and was answered 500,
\* while identities and a homework are stored
C18_Witness ==
    /\ resp.op = "bind" /\ resp.status = 500
    /\ resp.calls = <<"users.select", "parent_child.insert">>
    /\ users # <<>> /\ homeworks # <<>>

\* a login was answered 200
C18_WitnessLogin == resp.op = "login" /\ resp.status = 200 /\ Len(users) > 1

\* a listing was answered 200 with rows
C18_WitnessList == resp.op = "list" /\ resp.status = 200 /\ resp.data # <<>>

----------------------------------------------------------------------------
(* Claims about the stored data when every token presented was issued by the *)
(* server                                                                    *)

\* C19: in every state, the student_id of every row of homeworks is the id of
\* a stored identity whose role is student, and the parent_id of every row of
\* parent_child is the id of a stored identity whose role is parent.
C19_OwnersAndGuardiansStored ==
    /\ \A h \in Range(homeworks) :
          \E u \in Range(users) :
             u.id = h.student_id /\ u.username = h.student_name /\ u.role = "student"
    /\ \A r \in Range(parent_child) :
          \E u \in Range(users) : u.id = r.parent_id /\ u.role = "parent"

\* two students' homework and a parent's relationships to both are stored
C19_Witness ==
    /\ Cardinality(owners(Range(homeworks))) = 2
    /\ Len(parent_child) = 2
    /\ \E u \in Range(users) : u.role = "parent"

====
